---- MODULE Spec2Model ----
(***************************************************************************)
(* Colour guessing game (src/src/App.tsx): the colour arithmetic           *)
(* (hslToRgb, rgbToHex, calculateSimilarity), the colour wheel raster      *)
(* (drawColorWheel, getImageData) and the round/session transitions of     *)
(* the ColorGuessingGame component (handleCanvasClick, nextColor,          *)
(* initializeGame, fetchLeaderboard, submitScore).                         *)
(*                                                                         *)
(* Number representation.  All arithmetic is exact integer arithmetic on   *)
(* scaled values:                                                          *)
(*   - a hue is an integer number of degrees, a multiple of 15;            *)
(*   - a saturation or lightness is a number of eighths (0..8 = 0..1);     *)
(*   - a similarity, a real in the code, is the pair [lo, hi] of its       *)
(*     floor and ceiling in percent.                                       *)
(* For these inputs every intermediate value of the code's double          *)
(* arithmetic is a dyadic rational that a double holds exactly, so the     *)
(* integer computation and the code's computation agree.                   *)
(***************************************************************************)
EXTENDS Integers, Sequences, FiniteSets, TLC

VARIABLES
    score,           \* useState(0), line 16
    highScore,       \* useState(0), line 17
    targetColor,     \* useState<Color|null>, line 18: [hex, name]
    feedback,        \* useState(''), line 19: "", "correct" or "wrong"
    gameOver,        \* useState(false), line 20
    leaderboard,     \* useState([]), line 21
    displayName,     \* useState(''), line 24: a sequence of characters
    targetRGB,       \* useState, line 25
    showNextButton,  \* useState(false), line 26
    clickPoint,      \* clickPointRef.current, line 29
    overlay,         \* whether the canvas holds overlay paint on top of the wheel
    localStorage,    \* [name, high]: the two keys the handlers write
    fetches,         \* leaderboard fetches in flight (line 215)
    submits,         \* score submissions in flight (line 223): their bodies
    sessionSubmits,  \* history: the submissions issued since the last initializeGame
    wins,            \* history: the successful clicks since the last initializeGame
    op,              \* history: what the last handler did that no state shows:
                     \* "clickIgnored" (the return of line 232), "fetchReject" and
                     \* "submitReject" (console.error, lines 218 and 228); "nextColor"
                     \* and "initializeGame" for the two buttons; else "done"
    calc             \* the colour function applied last: [fn, args, result]

vars == <<score, highScore, targetColor, feedback, gameOver, leaderboard,
          displayName, targetRGB, showNextButton, clickPoint, overlay,
          localStorage, fetches, submits, sessionSubmits, wins, op, calc>>

gameVars == <<score, highScore, targetColor, feedback, gameOver, leaderboard,
              displayName, targetRGB, showNextButton, clickPoint, overlay,
              localStorage, fetches, submits, sessionSubmits, wins, op>>

\* null, for a value that is a sequence when present (a stored item, a point)
Null == <<>>

\* null, for the Color state of line 18
NoColor == [hex |-> <<>>, name |-> -1]

\* the null that window.prompt returns when it is cancelled
Cancelled == <<"null">>

(***************************************************************************)
(* Arithmetic helpers                                                      *)
(***************************************************************************)
Abs(a) == IF a < 0 THEN -a ELSE a

Max(a, b) == IF a >= b THEN a ELSE b

\* floor(a / b) for b > 0
FloorDiv(a, b) == IF a >= 0 THEN a \div b ELSE -((-a + b - 1) \div b)

\* JavaScript's % : the remainder takes the sign of the dividend
JsRem(a, n) == IF a >= 0 THEN a % n ELSE -((-a) % n)

\* Math.round(num / den), den > 0: the nearest integer, a half rounds up
MathRound(num, den) == FloorDiv(2 * num + den, 2 * den)

(***************************************************************************)
(* hslToRgb, lines 34-46.  h in degrees (a multiple of 15), s and l        *)
(* in eighths.  c64 is c in 1/64ths; x256, c256, m256 are x, c, m in       *)
(* 1/256ths; t4 is (h / 60) % 2 in quarters.                               *)
(***************************************************************************)
hslToRgb(h, s, l) ==
    LET c64  == (8 - Abs(2 * l - 8)) * s
        t4   == JsRem(FloorDiv(h, 15), 8)   \* h / 60 in quarters is h / 15
        x256 == c64 * (4 - Abs(t4 - 4))
        c256 == 4 * c64
        m256 == 32 * l - 2 * c64
        rgb1 == IF 0 <= h /\ h < 60 THEN <<c256, x256, 0>>
                ELSE IF h < 120 THEN <<x256, c256, 0>>
                ELSE IF h < 180 THEN <<0, c256, x256>>
                ELSE IF h < 240 THEN <<0, x256, c256>>
                ELSE IF h < 300 THEN <<x256, 0, c256>>
                ELSE <<c256, 0, x256>>
    IN  <<MathRound((rgb1[1] + m256) * 255, 256),
          MathRound((rgb1[2] + m256) * 255, 256),
          MathRound((rgb1[3] + m256) * 255, 256)>>

(***************************************************************************)
(* rgbToHex, lines 31-32, for channels in 0..255: '#' and two upper-case   *)
(* hexadecimal digits per channel.  A hex string is a sequence of          *)
(* one-character strings.                                                  *)
(***************************************************************************)
HexDigits == <<"0", "1", "2", "3", "4", "5", "6", "7",
               "8", "9", "A", "B", "C", "D", "E", "F">>

HexByte(v) == <<HexDigits[(v \div 16) + 1], HexDigits[(v % 16) + 1]>>

rgbToHex(r, g, b) == <<"#">> \o HexByte(r) \o HexByte(g) \o HexByte(b)

\* the value of a hexadecimal digit, as parseInt(_, 16) reads it
DigitValue == [ch \in {HexDigits[i] : i \in 1..16} |->
                 CHOOSE d \in 0..15 : HexDigits[d + 1] = ch]

DigitVal(ch) == DigitValue[ch]

\* parseInt(hex.slice(i, i + 2), 16), i a 0-based index as in the code
ParseHex2(hex, i) == 16 * DigitVal(hex[i + 1]) + DigitVal(hex[i + 2])

(***************************************************************************)
(* calculateSimilarity, lines 91-100.  The value                           *)
(*   (1 - sqrt(d2) / sqrt(3 * 255^2)) * 100                                *)
(* is returned as [lo |-> its floor, hi |-> its ceiling]:                  *)
(*   value >= k  iff lo >= k,   value = k  iff lo = k /\ hi = k.           *)
(* PctUp(d2) / PctDown(d2) are ceiling / floor of 100 * sqrt(d2 / MaxDist2)*)
(***************************************************************************)
MaxChannel == 255

MaxDist2 == 3 * MaxChannel * MaxChannel

\* the largest n in 0..100 with n^2 * MaxDist2 <= 10000 * d2: the tens, then the units
PctDown(d2) ==
    LET tens == CHOOSE a \in 0..10 :
                    /\ 100 * a * a * MaxDist2 <= 10000 * d2
                    /\ a < 10 => 100 * (a + 1) * (a + 1) * MaxDist2 > 10000 * d2
    IN  IF tens = 10 THEN 100
        ELSE CHOOSE n \in (10 * tens)..(10 * tens + 9) :
                    /\ n * n * MaxDist2 <= 10000 * d2
                    /\ (n + 1) * (n + 1) * MaxDist2 > 10000 * d2

PctUp(d2) == IF PctDown(d2) * PctDown(d2) * MaxDist2 = 10000 * d2
             THEN PctDown(d2) ELSE PctDown(d2) + 1

\* Mutant: the blue channel is left out of the distance.
calculateSimilarityNoBlue(hex1, hex2) ==
    LET r1 == ParseHex2(hex1, 1)
        g1 == ParseHex2(hex1, 3)
        r2 == ParseHex2(hex2, 1)
        g2 == ParseHex2(hex2, 3)
        d2 == (r1 - r2) * (r1 - r2) + (g1 - g2) * (g1 - g2)
    IN  [lo |-> 100 - PctUp(d2), hi |-> 100 - PctDown(d2)]

calculateSimilarity(hex1, hex2) ==
    LET r1 == ParseHex2(hex1, 1)
        g1 == ParseHex2(hex1, 3)
        b1 == ParseHex2(hex1, 5)
        r2 == ParseHex2(hex2, 1)
        g2 == ParseHex2(hex2, 3)
        b2 == ParseHex2(hex2, 5)
        d2 == (r1 - r2) * (r1 - r2) + (g1 - g2) * (g1 - g2) + (b1 - b2) * (b1 - b2)
    IN  [lo |-> 100 - PctUp(d2), hi |-> 100 - PctDown(d2)]

(***************************************************************************)
(* The colour wheel: drawColorWheel, lines 62-89, on the 300 x 300 canvas  *)
(* of line 304.  WheelPixel(x, y) is the RGBA value the loop body stores   *)
(* at (x, y); a pixel farther than the radius from the centre keeps the    *)
(* transparent black of createImageData.  Hue and saturation are computed  *)
(* for the points of an axis through the centre, where Math.atan2 and      *)
(* Math.sqrt are exact; ClickPoints holds only such points and points that *)
(* the loop does not paint.                                                *)
(***************************************************************************)
CanvasSize == 300

Radius == CanvasSize \div 2

Transparent == <<0, 0, 0, 0>>

\* Math.sqrt of a perfect square
Sqrt(n) == CHOOSE k \in 0..(2 * CanvasSize) : k * k = n

\* Math.atan2(dy, dx) * 180 / Math.PI for a point of an axis
Atan2Deg(dy, dx) == IF dy = 0 THEN (IF dx >= 0 THEN 0 ELSE 180)
                    ELSE IF dy > 0 THEN 90 ELSE -90

WheelPixel(x, y) ==
    LET dx == x - Radius
        dy == y - Radius
    IN  IF dx * dx + dy * dy > Radius * Radius THEN Transparent
        ELSE LET distance == Sqrt(dx * dx + dy * dy)
                 angle    == Atan2Deg(dy, dx)
                 hue      == JsRem(angle + 360, 360)
                 sat      == (8 * distance) \div Radius
                 rgb      == hslToRgb(hue, sat, 4)
             IN  <<rgb[1], rgb[2], rgb[3], 255>>

\* ctx.getImageData(x, y, 1, 1).data, line 240: the canvas pixel, and
\* transparent black for a pixel outside the canvas
getImageData(x, y) ==
    IF x \in 0..(CanvasSize - 1) /\ y \in 0..(CanvasSize - 1)
    THEN WheelPixel(x, y)
    ELSE Transparent

\* Click offsets (x, y) as lines 234-235 compute them: the centre, points
\* of the horizontal axis at half and full radius, a corner outside the
\* disc, and an offset one past the last column of the raster.  The handler
\* checks no bounds, and the rectangle of line 233 spans the canvas with its
\* border (line 307), so an offset may lie outside the raster.
ClickPoints == { <<150, 150>>, <<225, 150>>, <<75, 150>>, <<0, 150>>,
                 <<0, 0>>, <<300, 150>> }

(***************************************************************************)
(* generateTargetColor, lines 48-60.  The two Math.random() draws are the  *)
(* inputs: hue in [0, 360), saturation = sqrt(random) in [0, 1).           *)
(***************************************************************************)
TargetHues == {0, 180}

TargetSats == {4, 5, 7}

generateTargetColor(hue, saturation) ==
    LET rgb == hslToRgb(hue, saturation, 4)
    IN  [hex |-> rgbToHex(rgb[1], rgb[2], rgb[3]), name |-> hue]

\* lines 192-195 and 205-208
ParseRGB(hex) == <<ParseHex2(hex, 1), ParseHex2(hex, 3), ParseHex2(hex, 5)>>

(***************************************************************************)
(* Strings of the session: a display name is a sequence of characters.     *)
(***************************************************************************)
RECURSIVE TrimStart(_)
TrimStart(str) == IF str # <<>> /\ Head(str) = " " THEN TrimStart(Tail(str)) ELSE str

RECURSIVE TrimEnd(_)
TrimEnd(str) == IF str # <<>> /\ str[Len(str)] = " "
                THEN TrimEnd(SubSeq(str, 1, Len(str) - 1)) ELSE str

\* String.prototype.trim
Trim(str) == TrimEnd(TrimStart(str))

\* Number.prototype.toString and parseInt, base 10, for n >= 0: decimal digits
RECURSIVE NumToString(_)
NumToString(n) == IF n < 10 THEN <<n>> ELSE Append(NumToString(n \div 10), n % 10)

RECURSIVE ParseInt(_)
ParseInt(str) == IF Len(str) = 1 THEN str[1]
                 ELSE 10 * ParseInt(SubSeq(str, 1, Len(str) - 1)) + str[Len(str)]

(***************************************************************************)
(* Bounds and input sets                                                   *)
(***************************************************************************)
MaxScore == 2       \* successful rounds per session the model follows

MaxInFlight == 1    \* requests of one kind in flight at once

PlayerId == "p1"    \* the stored colorGamePlayerId, lines 266-268

StoredNames == {Null, <<"b">>}      \* colorGameDisplayName at mount, Null when absent

StoredHighs == {Null, NumToString(1)}    \* colorGameHighScore at mount

\* window.prompt: cancelled, blank, a name in blanks
PromptAnswers == {Cancelled, <<" ">>, <<" ", "a", " ">>}

\* bodies the leaderboard endpoint answers with
LeaderboardData == { <<>>, <<[displayName |-> <<"a">>, highScore |-> 1]>> }

NoCalc == [fn |-> "none", args |-> <<>>, result |-> <<>>]

(***************************************************************************)
(* State after the mount effect, lines 265-279: the stored name and high   *)
(* score are read, fetchLeaderboard() has issued its request and           *)
(* initializeGame() has drawn the first target.                            *)
(***************************************************************************)
Init ==
    \E savedName \in StoredNames,
       saved \in StoredHighs,
       hue \in TargetHues, sat \in TargetSats :
        /\ localStorage = [name |-> savedName, high |-> saved]
        /\ displayName = IF savedName # Null THEN savedName ELSE <<>>
        /\ highScore = IF saved # Null THEN ParseInt(saved) ELSE 0
        /\ targetColor = generateTargetColor(hue, sat)
        /\ targetRGB = ParseRGB(generateTargetColor(hue, sat).hex)
        /\ score = 0
        /\ feedback = ""
        /\ gameOver = FALSE
        /\ showNextButton = FALSE
        /\ clickPoint = Null
        /\ overlay = FALSE
        /\ leaderboard = <<>>
        /\ fetches = 1
        /\ submits = <<>>
        /\ sessionSubmits = <<>>
        /\ wins = 0
        /\ op = "done"
        /\ calc = NoCalc

(***************************************************************************)
(* handleCanvasClick, lines 231-263                                        *)
(***************************************************************************)
Threshold == 90

\* Mutant: the guard forgets showNextButton.
ClickIgnoredGameOverOnly == gameOver \/ targetColor = NoColor

\* line 232: the early return (canvasRef.current is set once the canvas
\* is rendered, which is whenever targetColor is)
ClickIgnored == gameOver \/ targetColor = NoColor \/ showNextButton

\* Mutant: the comparison is turned around.
IsSuccessInverted(similarity) == similarity.lo < Threshold

\* line 246
IsSuccess(similarity) == similarity.lo >= Threshold

\* lines 240-242: the similarity of the pixel at p to the target
ClickSimilarity(p) ==
    LET pixel == getImageData(p[1], p[2])
    IN  calculateSimilarity(rgbToHex(pixel[1], pixel[2], pixel[3]), targetColor.hex)

\* lines 253-257: the name the score is submitted under
ResolveName(answer) ==
    IF displayName # <<>> THEN displayName
    ELSE IF answer # Cancelled /\ answer # <<>> /\ Trim(answer) # <<>> THEN Trim(answer)
    ELSE <<>>

\* the request body of submitScore, line 225
SubmitBody(name, s) == [playerId |-> PlayerId, displayName |-> name, score |-> s]

\* Mutant: the high score is overwritten by the session's score.
NewHighIsScore == score

\* line 259
NewHigh == Max(score, highScore)

\* Mutant: the new high score is submitted instead of the session's score.
ClickSubmitsHigh(name) == IF name # <<>> THEN <<SubmitBody(name, NewHigh)>> ELSE <<>>

\* line 258: the requests this click issues
ClickSubmits(name) == IF name # <<>> THEN <<SubmitBody(name, score)>> ELSE <<>>

ClickSuccess ==
    /\ score < MaxScore
    /\ feedback' = "correct"
    /\ score' = score + 1
    /\ showNextButton' = TRUE
    /\ wins' = wins + 1
    /\ UNCHANGED <<gameOver, displayName, localStorage, submits, sessionSubmits,
                   highScore>>

ClickFailure(answer) ==
    LET name == ResolveName(answer)
    IN  /\ Len(submits) + Len(ClickSubmits(name)) <= MaxInFlight
        /\ feedback' = "wrong"
        /\ gameOver' = TRUE
        /\ displayName' = name
        /\ submits' = submits \o ClickSubmits(name)
        /\ sessionSubmits' = sessionSubmits \o ClickSubmits(name)
        /\ highScore' = NewHigh
        /\ localStorage' = [name |-> IF displayName = <<>> /\ name # <<>>
                                     THEN name ELSE localStorage.name,
                            high |-> NumToString(NewHigh)]
        /\ UNCHANGED <<score, showNextButton, wins>>

\* window.prompt is called, and answered, only by a click that is not ignored,
\* fails and finds no display name (line 254)
AnswersAsked == IF ClickIgnored \/ displayName # <<>> THEN {Cancelled} ELSE PromptAnswers

handleCanvasClick(p, answer) ==
    IF ClickIgnored
    THEN /\ op' = "clickIgnored"
         /\ UNCHANGED <<score, highScore, targetColor, feedback, gameOver,
                        leaderboard, displayName, targetRGB, showNextButton,
                        clickPoint, overlay, localStorage, fetches, submits,
                        sessionSubmits, wins, calc>>
    ELSE /\ clickPoint' = p
         /\ overlay' = TRUE                      \* drawOverlay, line 244
         /\ IF IsSuccess(ClickSimilarity(p)) THEN ClickSuccess ELSE ClickFailure(answer)
         /\ op' = "done"
         /\ UNCHANGED <<targetColor, targetRGB, leaderboard, fetches, calc>>

(***************************************************************************)
(* nextColor, lines 198-209, offered while showNextButton (lines 335-344); *)
(* initializeGame, lines 183-196, offered while gameOver (lines 346-356).  *)
(* The new targetColor re-runs the effect of lines 281-283, which repaints *)
(* the bare wheel.                                                         *)
(***************************************************************************)
\* Mutant: nextColor resets the score as initializeGame does.
nextColorResetsScore(hue, sat) ==
    /\ showNextButton
    /\ targetColor' = generateTargetColor(hue, sat)
    /\ feedback' = ""
    /\ score' = 0
    /\ showNextButton' = FALSE
    /\ clickPoint' = Null
    /\ targetRGB' = ParseRGB(generateTargetColor(hue, sat).hex)
    /\ overlay' = FALSE
    /\ op' = "nextColor"
    /\ UNCHANGED <<highScore, gameOver, leaderboard, displayName,
                   localStorage, fetches, submits, sessionSubmits, wins, calc>>

nextColor(hue, sat) ==
    /\ showNextButton
    /\ targetColor' = generateTargetColor(hue, sat)
    /\ feedback' = ""
    /\ showNextButton' = FALSE
    /\ clickPoint' = Null
    /\ targetRGB' = ParseRGB(generateTargetColor(hue, sat).hex)
    /\ overlay' = FALSE
    /\ op' = "nextColor"
    /\ UNCHANGED <<score, highScore, gameOver, leaderboard, displayName,
                   localStorage, fetches, submits, sessionSubmits, wins, calc>>

\* Mutant: initializeGame leaves the score as it is.
initializeGameKeepsScore(hue, sat) ==
    /\ gameOver
    /\ targetColor' = generateTargetColor(hue, sat)
    /\ feedback' = ""
    /\ gameOver' = FALSE
    /\ showNextButton' = FALSE
    /\ clickPoint' = Null
    /\ targetRGB' = ParseRGB(generateTargetColor(hue, sat).hex)
    /\ overlay' = FALSE
    /\ sessionSubmits' = <<>>
    /\ wins' = 0
    /\ op' = "initializeGame"
    /\ UNCHANGED <<score, highScore, leaderboard, displayName, localStorage, fetches,
                   submits, calc>>

initializeGame(hue, sat) ==
    /\ gameOver
    /\ targetColor' = generateTargetColor(hue, sat)
    /\ feedback' = ""
    /\ score' = 0
    /\ gameOver' = FALSE
    /\ showNextButton' = FALSE
    /\ clickPoint' = Null
    /\ targetRGB' = ParseRGB(generateTargetColor(hue, sat).hex)
    /\ overlay' = FALSE
    /\ sessionSubmits' = <<>>
    /\ wins' = 0
    /\ op' = "initializeGame"
    /\ UNCHANGED <<highScore, leaderboard, displayName, localStorage, fetches,
                   submits, calc>>

(***************************************************************************)
(* The network.  fetchLeaderboard, lines 213-219: the request is in flight *)
(* until fetch / res.json() resolve (setLeaderboard) or reject             *)
(* (console.error).  submitScore, lines 221-229: once the POST resolves    *)
(* fetchLeaderboard() is called; a rejection is logged.  The socket        *)
(* events of lines 276-277 call fetchLeaderboard.                          *)
(***************************************************************************)
RemoveAt(seq, i) == SubSeq(seq, 1, i - 1) \o SubSeq(seq, i + 1, Len(seq))

FetchResolve(data) ==
    /\ fetches > 0
    /\ fetches' = fetches - 1
    /\ leaderboard' = data
    /\ op' = "done"
    /\ UNCHANGED <<score, highScore, targetColor, feedback, gameOver, displayName,
                   targetRGB, showNextButton, clickPoint, overlay, localStorage,
                   submits, sessionSubmits, wins, calc>>

FetchReject ==
    /\ fetches > 0
    /\ fetches' = fetches - 1
    /\ op' = "fetchReject"
    /\ UNCHANGED <<score, highScore, targetColor, feedback, gameOver, leaderboard,
                   displayName, targetRGB, showNextButton, clickPoint, overlay,
                   localStorage, submits, sessionSubmits, wins, calc>>

SubmitResolve(i) ==
    /\ i \in 1..Len(submits)
    /\ fetches < MaxInFlight
    /\ submits' = RemoveAt(submits, i)
    /\ fetches' = fetches + 1
    /\ op' = "done"
    /\ UNCHANGED <<score, highScore, targetColor, feedback, gameOver, leaderboard,
                   displayName, targetRGB, showNextButton, clickPoint, overlay,
                   localStorage, sessionSubmits, wins, calc>>

\* Mutant: fetchLeaderboard() is called after a rejected submission too.
SubmitRejectRequeries(i) ==
    /\ i \in 1..Len(submits)
    /\ fetches < MaxInFlight
    /\ submits' = RemoveAt(submits, i)
    /\ fetches' = fetches + 1
    /\ op' = "submitReject"
    /\ UNCHANGED <<score, highScore, targetColor, feedback, gameOver, leaderboard,
                   displayName, targetRGB, showNextButton, clickPoint, overlay,
                   localStorage, sessionSubmits, wins, calc>>

SubmitReject(i) ==
    /\ i \in 1..Len(submits)
    /\ submits' = RemoveAt(submits, i)
    /\ op' = "submitReject"
    /\ UNCHANGED <<score, highScore, targetColor, feedback, gameOver, leaderboard,
                   displayName, targetRGB, showNextButton, clickPoint, overlay,
                   localStorage, fetches, sessionSubmits, wins, calc>>

SocketEvent ==
    /\ fetches < MaxInFlight
    /\ fetches' = fetches + 1
    /\ op' = "done"
    /\ UNCHANGED <<score, highScore, targetColor, feedback, gameOver, leaderboard,
                   displayName, targetRGB, showNextButton, clickPoint, overlay,
                   localStorage, submits, sessionSubmits, wins, calc>>

Next ==
    \/ \E p \in ClickPoints, answer \in AnswersAsked : handleCanvasClick(p, answer)
    \/ \E hue \in TargetHues, sat \in TargetSats : nextColor(hue, sat)
    \/ \E hue \in TargetHues, sat \in TargetSats : initializeGame(hue, sat)
    \/ \E data \in LeaderboardData : FetchResolve(data)
    \/ FetchReject
    \/ \E i \in 1..MaxInFlight + 1 : SubmitResolve(i)
    \/ \E i \in 1..MaxInFlight + 1 : SubmitReject(i)
    \/ SocketEvent

Spec == Init /\ [][Next]_vars

(***************************************************************************)
(* The colour functions on their own: SpecMath applies calculateSimilarity *)
(* and hslToRgb to sampled arguments while the game rests in one initial   *)
(* state.                                                                  *)
(***************************************************************************)
Channels == {0, 1, 128, 255}

Colours == Channels \X Channels \X Channels

\* hues from -360 to 720 degrees in steps of 15; saturation and lightness
\* in quarters
HueSamples == {15 * k : k \in -24..48}

UnitSamples == {0, 2, 4, 6, 8}

InitMath ==
    /\ Init
    /\ targetColor = generateTargetColor(0, 4)
    /\ displayName = <<>>
    /\ highScore = 0

CallCalculateSimilarity(a, b) ==
    /\ calc = NoCalc
    /\ calc' = [fn |-> "calculateSimilarity", args |-> <<a, b>>,
                result |-> calculateSimilarity(rgbToHex(a[1], a[2], a[3]),
                                               rgbToHex(b[1], b[2], b[3]))]
    /\ UNCHANGED gameVars

CallHslToRgb(h, s, l) ==
    /\ calc = NoCalc
    /\ calc' = [fn |-> "hslToRgb", args |-> <<h, s, l>>, result |-> hslToRgb(h, s, l)]
    /\ UNCHANGED gameVars

Return ==
    /\ calc # NoCalc
    /\ calc' = NoCalc
    /\ UNCHANGED gameVars

NextMath ==
    \/ \E a \in Colours, b \in Colours : CallCalculateSimilarity(a, b)
    \/ \E h \in HueSamples, s \in UnitSamples, l \in UnitSamples : CallHslToRgb(h, s, l)
    \/ Return

SpecMath == InitMath /\ [][NextMath]_vars

(***************************************************************************)
(* Properties                                                              *)
(***************************************************************************)
OutsideRaster(p) == ~(p[1] \in 0..(CanvasSize - 1) /\ p[2] \in 0..(CanvasSize - 1))

\* C1: a click that was accepted is a success (next-round button, no game
\* over) exactly when the similarity of the clicked pixel to the target is
\* at least 90, and a failure (game over, no next-round button) exactly when
\* it is below 90; never both, never neither.
C1_ThresholdDecidesOutcome ==
    clickPoint # Null =>
        LET similarity == ClickSimilarity(clickPoint)
        IN  /\ similarity.lo >= 90 =>
                showNextButton /\ ~gameOver /\ feedback = "correct"
            /\ similarity.lo < 90 =>
                gameOver /\ ~showNextButton /\ feedback = "wrong"

\* C1 witness: a click succeeded on a pixel that is close to, but not equal
\* to, the target (similarity in [90, 100)).
C1_Witness ==
    /\ clickPoint # Null
    /\ showNextButton
    /\ ClickSimilarity(clickPoint).hi < 100
    /\ ClickSimilarity(clickPoint).lo >= 90

\* C2: once a click has been resolved, every step that leaves the round
\* resolved (so every further click) changes neither score, game-over flag,
\* next-round flag, click point, feedback, high score nor the submissions
\* issued; a click is dropped only in a resolved round and then changes
\* nothing at all; a recorded click point is never replaced by another.
C2_ResolvedRoundIgnoresClicks ==
    [][ /\ ((gameOver \/ showNextButton) /\ (gameOver' \/ showNextButton')
              => UNCHANGED <<score, gameOver, showNextButton, clickPoint, feedback,
                             highScore, sessionSubmits, targetColor>>)
        /\ (op' = "clickIgnored"
              => /\ gameOver \/ showNextButton
                 /\ UNCHANGED <<score, highScore, targetColor, feedback, gameOver,
                                leaderboard, displayName, targetRGB, showNextButton,
                                clickPoint, overlay, localStorage, fetches, submits,
                                sessionSubmits, wins>>)
        /\ (clickPoint # Null => clickPoint' \in {clickPoint, Null}) ]_vars

\* C2 witness: a click was dropped after the round ended in game over.
C2_Witness == op = "clickIgnored" /\ gameOver /\ clickPoint # Null

\* C3: the score equals the number of successful clicks since the last
\* restart, no submission has been issued in a session that is not over,
\* and a submission is issued only by the step that enters game over.
C3_ScoreCountsWinsNoEarlySubmit ==
    /\ [](score = wins /\ (~gameOver => sessionSubmits = <<>>))
    /\ [][Len(sessionSubmits') > Len(sessionSubmits) => ~gameOver /\ gameOver']_vars

\* C3 witness: two successful rounds, each followed by nextColor, and
\* nothing submitted.
C3_Witness ==
    /\ score = 2
    /\ op = "nextColor"
    /\ ~gameOver
    /\ sessionSubmits = <<>>
    /\ submits = <<>>

\* C4 as stated: every failed guess ends in game over with one submission
\* carrying the session's score, whatever the display name and the answer.
C4_AlwaysSubmits ==
    /\ (clickPoint # Null /\ ClickSimilarity(clickPoint).lo < 90) => gameOver
    /\ gameOver => Len(sessionSubmits) = 1 /\ sessionSubmits[1].score = score

\* C4 amended: every failed guess ends in game over; the score is submitted,
\* under the display name and with the session's score, exactly when a
\* display name is available (stored, or a non-blank answer to the prompt).
C4_SubmitsWhenNamed ==
    /\ (clickPoint # Null /\ ClickSimilarity(clickPoint).lo < 90) => gameOver
    /\ gameOver =>
         IF displayName # <<>>
         THEN sessionSubmits = <<[playerId |-> PlayerId, displayName |-> displayName,
                                  score |-> score]>>
         ELSE sessionSubmits = <<>>

\* C4 witness: game over after one success, the prompt answered " a ": the
\* trimmed name and the score 1 were submitted.
C4_Witness ==
    /\ gameOver
    /\ score = 1
    /\ localStorage.name = <<"a">>
    /\ sessionSubmits = <<[playerId |-> PlayerId, displayName |-> <<"a">>, score |-> 1]>>

\* C5: game over and the next-round button never coexist; game over is
\* left only by initializeGame, which resets score, flags, feedback and
\* click point and sets a generated target; nextColor runs only outside
\* game over and keeps the score.
C5_RestartOnlyFromGameOver ==
    /\ [](~(gameOver /\ showNextButton))
    /\ [][gameOver /\ ~gameOver'
            => /\ op' = "initializeGame"
               /\ score' = 0
               /\ clickPoint' = Null
               /\ ~showNextButton'
               /\ feedback' = ""
               /\ \E hue \in TargetHues, sat \in TargetSats :
                      targetColor' = generateTargetColor(hue, sat)]_vars
    /\ [][op' = "nextColor" => ~gameOver /\ ~gameOver' /\ score' = score]_vars

\* C5 witness: a session that reached score 2 ended and was restarted.
C5_Witness ==
    /\ op = "initializeGame"
    /\ highScore = 2
    /\ score = 0
    /\ ~gameOver
    /\ clickPoint = Null

\* C6 as stated: a click whose point lies outside the raster is not scored:
\* it ends the round neither as a success nor as game over.
C6_OutsideClickNotScored ==
    (clickPoint # Null /\ OutsideRaster(clickPoint)) => ~gameOver /\ ~showNextButton

\* C7: the similarity of two colours lies in [0, 100], is 100 exactly when
\* they agree in all channels and 0 exactly when every channel is 0 in one
\* and 255 in the other.
C7_SimilarityRange ==
    calc.fn = "calculateSimilarity" =>
        LET a == calc.args[1]
            b == calc.args[2]
            similarity == calc.result
        IN  /\ similarity.lo >= 0
            /\ similarity.hi <= 100
            /\ similarity.lo <= similarity.hi
            /\ (similarity.lo = 100) <=> (a = b)
            /\ (similarity.hi = 0) <=>
                 \A i \in 1..3 : {a[i], b[i]} = {0, 255}

\* C7 witness: two opposite corners of the cube other than black and white.
C7_Witness ==
    /\ calc.fn = "calculateSimilarity"
    /\ calc.args = << <<0, 255, 0>>, <<255, 0, 255>> >>
    /\ calc.result = [lo |-> 0, hi |-> 0]

\* h modulo 360, in [0, 360)
NormalizedHue(h) == h - 360 * FloorDiv(h, 360)

\* C8 as stated: for a hue outside [0, 360) hslToRgb returns what it returns
\* for the hue modulo 360, every channel in [0, 255].
C8_HueNormalized ==
    (calc.fn = "hslToRgb" /\ calc.args[1] \notin 0..359) =>
        /\ calc.result = hslToRgb(NormalizedHue(calc.args[1]), calc.args[2], calc.args[3])
        /\ \A i \in 1..3 : calc.result[i] \in 0..255

C10_HighScoreMonotone ==
    /\ [](gameOver => highScore >= score)
    /\ [][highScore' >= highScore]_vars
    /\ [][highScore' # highScore => ~gameOver /\ gameOver']_vars
    /\ [][~gameOver /\ gameOver'
            => highScore' = (IF score >= highScore THEN score ELSE highScore)]_vars

\* C10 witness: a session that ended with score 2 raised the high score to 2.
C10_Witness ==
    /\ gameOver
    /\ score = 2
    /\ highScore = 2
    /\ localStorage.high = <<2>>

====
